---------------------------- MODULE Spec2Model ----------------------------
(***************************************************************************)
(* A model of crates/dance/dance.rs: the "dance" modal-editing command     *)
(* layer (select_line, paste_above, paste_below, join_lines, switch_mode,  *)
(* move_to_beginning_of_line, move_to_end_of_line, the focus resync) on    *)
(* top of the host editor surface.                                         *)
(*                                                                         *)
(* Rows and columns are 0-based as in the source; TLA+ sequences are       *)
(* 1-based, so row r of a buffer is element r + 1 of its line sequence.    *)
(***************************************************************************)
EXTENDS Integers, Sequences, FiniteSets, TLC

VARIABLES
    buffer,          \* the editor's buffer: a non-empty sequence of lines
    selections,      \* the editor's selection set, ascending, disjoint
    read_only,       \* editor.read_only(cx)
    clipboard,       \* cx.read_from_clipboard(): "None" or a sequence of entries
    editor_mode,     \* editor.mode(): "Full" or "SingleLine"
    dance_mode,      \* Dance.dance_mode
    cursor_shape,    \* the editor's cursor shape
    last_action,     \* the command or event handled last ("init" before any)
    pre,             \* buffer and selections as the last handler found them
    host_calls,      \* the host calls the last handler made, in order
    row_ranges,      \* join_lines: the row ranges after the merge loop
    edits,           \* join_lines: the buffer.edit calls, in order, each with the live text it met
    cursor_positions,\* join_lines: the anchor ranges handed to select_anchor_ranges
    transactions,    \* the undo steps the last handler added: the buffer before each
    surface          \* which of the Editor and the Dance entities still exist

vars == <<buffer, selections, read_only, clipboard, editor_mode, dance_mode,
          cursor_shape, last_action, pre, host_calls, row_ranges,
          edits, cursor_positions, transactions, surface>>

-----------------------------------------------------------------------------
(* Bounds of the model *)

\* join_lines: most rows and most selections of a generated input
JoinMaxRows == 4
JoinMaxSelections == 2
\* select_line: most rows and most selections of a generated input
SelectMaxRows == 3
SelectMaxSelections == 2
\* paste_above, paste_below: most rows of a generated buffer
PasteMaxRows == 3
\* the motions: most selections of a generated input
MoveMaxSelections == 2
\* join_lines on a read-only buffer: most rows of a generated buffer
ReadOnlyMaxRows == 2
\* join_lines with selections at any column: most rows and most selections
CaretMaxRows == 2
CaretMaxSelections == 2
\* the merge loop alone: most ranges of a generated input, and its largest row
MaxRanges == 3
MaxRangeRow == 4
\* the surface as a whole: most characters (line breaks included) the
\* document may grow to through pastes
MaxText == 6

-----------------------------------------------------------------------------
(* Text: characters, lines, points, offsets *)

NL == "\n"
SP == " "

\* A value computed once, where it is then used several times.
Once(v) == CHOOSE x \in {v} : TRUE

Min(a, b) == IF a <= b THEN a ELSE b
Max(a, b) == IF a >= b THEN a ELSE b

\* A Point: (row, column), ordered by row then column.
Point(r, c) == [row |-> r, column |-> c]
PointLE(p, q) == p.row < q.row \/ (p.row = q.row /\ p.column <= q.column)
PointLT(p, q) == p.row < q.row \/ (p.row = q.row /\ p.column < q.column)
PointMin(p, q) == IF PointLE(p, q) THEN p ELSE q

LastRow(buf) == Len(buf) - 1
Line(buf, r) == buf[r + 1]

\* snapshot.max_point()
max_point(buf) == Point(LastRow(buf), Len(Line(buf, LastRow(buf))))

\* snapshot.line_len(row): 0 for a row past the last one
line_len(buf, r) == IF r <= LastRow(buf) THEN Len(Line(buf, r)) ELSE 0

RECURSIVE LeadingSpaces(_)
LeadingSpaces(line) ==
    IF line = <<>> \/ Head(line) # SP THEN 0 ELSE 1 + LeadingSpaces(Tail(line))

\* snapshot.indent_size_for_line(row).len: 0 for a row past the last one
indent_len(buf, r) == IF r <= LastRow(buf) THEN LeadingSpaces(Line(buf, r)) ELSE 0

\* The buffer's text: its lines separated by line breaks.
RECURSIVE Flatten(_)
Flatten(buf) ==
    IF Len(buf) = 1 THEN buf[1] ELSE buf[1] \o <<NL>> \o Flatten(Tail(buf))

RECURSIVE SplitLines(_, _)
SplitLines(text, cur) ==
    IF text = <<>> THEN <<cur>>
    ELSE IF Head(text) = NL THEN <<cur>> \o SplitLines(Tail(text), <<>>)
    ELSE SplitLines(Tail(text), Append(cur, Head(text)))

\* The lines of a text.
Unflatten(text) == SplitLines(text, <<>>)

RECURSIVE RowStart(_, _)
RowStart(buf, r) == IF r = 0 THEN 0 ELSE RowStart(buf, r - 1) + Len(Line(buf, r - 1)) + 1

\* Point::to_offset, clipping a point past the end of its row or of the buffer
ToOffset(buf, p) ==
    IF p.row > LastRow(buf) THEN RowStart(buf, LastRow(buf)) + Len(Line(buf, LastRow(buf)))
    ELSE RowStart(buf, p.row) + Min(p.column, Len(Line(buf, p.row)))

RECURSIVE OffsetToPointFrom(_, _, _)
OffsetToPointFrom(buf, r, off) ==
    IF r = LastRow(buf) \/ off <= Len(Line(buf, r)) THEN Point(r, Min(off, Len(Line(buf, r))))
    ELSE OffsetToPointFrom(buf, r + 1, off - Len(Line(buf, r)) - 1)

\* usize::to_point
ToPoint(buf, off) == OffsetToPointFrom(buf, 0, off)

\* The text between two offsets.
Slice(text, a, b) == SubSeq(text, a + 1, b)

\* text with [a, b) replaced by new
Splice(text, a, b, new) == SubSeq(text, 1, a) \o new \o SubSeq(text, b + 1, Len(text))


-----------------------------------------------------------------------------
(* Selections *)

\* A Selection<Point>: start <= end, the caret at start when reversed.
Selection(s, e, rev, goal) == [start |-> s, end |-> e, reversed |-> rev, goal |-> goal]

is_empty(sel) == sel.start = sel.end

\* Selection::head(): the end the caret is on
head(sel) == IF sel.reversed THEN sel.start ELSE sel.end

\* Selection::collapse_to(point, goal)
collapse_to(sel, point, goal) == Selection(point, point, FALSE, goal)

\* MutableSelectionsCollection::select: the host keeps the set ascending and
\* disjoint, merging a selection into its predecessor when they touch or
\* overlap (every list this module hands over is ascending by start already).
RECURSIVE MergeSelections(_, _)
MergeSelections(acc, rest) ==
    IF rest = <<>> THEN acc
    ELSE LET s == Head(rest) IN
         IF acc # <<>> /\ PointLE(s.start, acc[Len(acc)].end)
         THEN LET l == acc[Len(acc)]
                  m == [l EXCEPT !.end = IF PointLT(l.end, s.end) THEN s.end ELSE l.end]
              IN MergeSelections([acc EXCEPT ![Len(acc)] = m], Tail(rest))
         ELSE MergeSelections(Append(acc, s), Tail(rest))

select(sels) == MergeSelections(<<>>, sels)

\* The selection sets the host can hold: ascending, pairwise apart.
IsSelectionSet(buf, sels) ==
    /\ Len(sels) >= 1
    /\ \A i \in 1..Len(sels) :
         /\ PointLE(sels[i].start, sels[i].end)
         /\ PointLE(sels[i].end, max_point(buf))
         /\ sels[i].start.column <= line_len(buf, sels[i].start.row)
         /\ sels[i].end.column <= line_len(buf, sels[i].end.row)
    /\ \A i \in 1..(Len(sels) - 1) : PointLT(sels[i].end, sels[i + 1].start)

-----------------------------------------------------------------------------
(* What every handler records *)

Action(name, arg) == [name |-> name, arg |-> arg]

\* The state a handler starts from.
Before == [buffer |-> buffer, selections |-> selections,
           dance_mode |-> dance_mode, cursor_shape |-> cursor_shape]

Handled(name, arg, calls) ==
    /\ last_action' = Action(name, arg)
    /\ pre' = Before
    /\ host_calls' = calls
    /\ surface' = surface

\* A transaction of the host that changed the buffer is one undo step, which
\* holds the buffer as it was; one that changed nothing leaves no step.
committed(before, after) == IF after # before THEN <<before>> ELSE <<>>

\* A handler that makes no edit adds no undo step.
NoTransaction == transactions' = <<>>

\* A handler that ends before it touches the editor or the controller.
Untouched ==
    /\ row_ranges' = <<>>
    /\ edits' = <<>>
    /\ cursor_positions' = <<>>
    /\ NoTransaction
    /\ UNCHANGED <<buffer, selections, read_only, clipboard, editor_mode, dance_mode,
                   cursor_shape>>

\* Result::unwrap() on the Err of WeakEntity::update: the handler panics.
unwrap_failed(name) == Handled(name, "", <<"panic">>) /\ Untouched

\* let Some(editor) = dance.editor.upgrade() else { return }
abandoned(name) == Handled(name, "", <<>>) /\ Untouched

\* join_lines' locals do not outlive the call.
NoJoinLocals ==
    /\ row_ranges' = <<>>
    /\ edits' = <<>>
    /\ cursor_positions' = <<>>

-----------------------------------------------------------------------------
(* select_line *)

\* DisplaySnapshot::prev_line_boundary(point).0 with no folds or wraps
prev_line_boundary(buf, p) == Point(p.row, 0)

\* DisplaySnapshot::next_line_boundary(point).0 with no folds or wraps
next_line_boundary(buf, p) == Point(p.row, line_len(buf, p.row))

\* select_line_end without the step back from column 0 of the row after.
select_line_end_not_stepping_back(sel) == sel.end

\* The end point select_line expands from.
select_line_end(sel) ==
    IF sel.start.row # sel.end.row /\ sel.end.column = 0 /\ sel.reversed = TRUE
    THEN Point(sel.end.row - 1, sel.end.column)
    ELSE sel.end

\* select_line_one with the end not clamped to the buffer's max point.
select_line_one_unclamped(buf, sel) ==
    LET end == select_line_end(sel)
    IN [sel EXCEPT !.start = Point(sel.start.row, 0),
                   !.end = Point(next_line_boundary(buf, end).row + 1, 0),
                   !.reversed = TRUE]

\* The body of select_line's loop, for one selection.
select_line_one(buf, sel) ==
    LET start == sel.start
        end == select_line_end(sel)
        buffer_start == prev_line_boundary(buf, start)
        buffer_end == next_line_boundary(buf, end)
        rows == [start |-> buffer_start.row, end |-> buffer_end.row + 1]
    IN [sel EXCEPT !.start = Point(rows.start, 0),
                   !.end = PointMin(max_point(buf), Point(rows.end, 0)),
                   !.reversed = TRUE]

\* The selections select_line hands to s.select.
select_line_all(buf, sels) == [i \in 1..Len(sels) |-> select_line_one(buf, sels[i])]

select_line ==
    /\ selections' = select(select_line_all(buffer, selections))
    /\ Handled("select_line", "", <<"change_selections">>)
    /\ NoJoinLocals
    /\ NoTransaction
    /\ UNCHANGED <<buffer, read_only, clipboard, editor_mode, dance_mode,
                   cursor_shape>>

-----------------------------------------------------------------------------
(* The mode controller: switch_mode, sync, the focus resync, the key context *)

\* sync taking the empty mode name for "default".
sync_empty_as_default(mode) == IF mode \in {"default", ""} THEN "Bar" ELSE "WideBar"

\* sync: the cursor shape of a mode
sync(mode) == IF mode = "default" THEN "Bar" ELSE "WideBar"

\* init: the mode a new surface starts in
initial_mode(emode) == IF emode = "Full" THEN "action" ELSE "default"

\* switch_mode setting the cursor shape and not storing the mode.
switch_mode_not_stored(mode) ==
    /\ dance_mode' = dance_mode
    /\ cursor_shape' = sync(mode)
    /\ Handled("switch_mode", mode, <<"set_cursor_shape">>)
    /\ NoJoinLocals
    /\ NoTransaction
    /\ UNCHANGED <<buffer, selections, read_only, clipboard, editor_mode>>

switch_mode(mode) ==
    /\ dance_mode' = mode
    /\ cursor_shape' = sync(mode)
    /\ Handled("switch_mode", mode, <<"set_cursor_shape">>)
    /\ NoJoinLocals
    /\ NoTransaction
    /\ UNCHANGED <<buffer, selections, read_only, clipboard, editor_mode>>

handle_editor_event(event) ==
    IF event \in {"Focused", "FocusedIn"} /\ ~surface.editor
    THEN unwrap_failed(event)
    ELSE /\ IF event \in {"Focused", "FocusedIn"}
            THEN /\ cursor_shape' = sync(dance_mode)
                 /\ Handled(event, "", <<"set_cursor_shape">>)
            ELSE /\ cursor_shape' = cursor_shape
                 /\ Handled(event, "", <<>>)
         /\ NoJoinLocals
         /\ NoTransaction
         /\ UNCHANGED <<buffer, selections, read_only, clipboard, editor_mode, dance_mode>>

\* The value DanceAddon::extend_key_context sets the key "dance_mode" to.
key_context_value(mode) == mode

\* DanceAddon::extend_key_context: key_context.set("dance_mode", dance_mode);
\* the key context is the caller's, the value written is recorded as the
\* action's argument.
extend_key_context ==
    /\ Handled("extend_key_context", key_context_value(dance_mode), <<"key_context.set">>)
    /\ NoJoinLocals
    /\ NoTransaction
    /\ UNCHANGED <<buffer, selections, read_only, clipboard, editor_mode, dance_mode,
                   cursor_shape>>

-----------------------------------------------------------------------------
(* move_to_beginning_of_line, move_to_end_of_line *)

\* all_selections_are_empty with any() for all().
any_selection_is_empty(sels) == \E i \in 1..Len(sels) : is_empty(sels[i])

all_selections_are_empty(sels) == \A i \in 1..Len(sels) : is_empty(sels[i])

\* Editor::move_to_beginning_of_line with stop_at_indent: a caret goes to the
\* first non-indent column of its row, or to column 0 when it is there already.
native_beginning_of_line(buf, sel) ==
    LET p == head(sel)
        indent == indent_len(buf, p.row)
    IN collapse_to(sel, Point(p.row, IF p.column = indent THEN 0 ELSE indent), "None")

\* Editor::move_to_end_of_line: a caret goes to the end of its row.
native_end_of_line(buf, sel) ==
    LET p == head(sel) IN collapse_to(sel, Point(p.row, line_len(buf, p.row)), "None")

move_to_beginning_of_line ==
    /\ IF all_selections_are_empty(selections)
       THEN /\ selections' = select([i \in 1..Len(selections) |->
                                        native_beginning_of_line(buffer, selections[i])])
            /\ Handled("move_to_beginning_of_line", "", <<"move_to_beginning_of_line">>)
       ELSE /\ selections' = select([i \in 1..Len(selections) |->
                                        collapse_to(selections[i], selections[i].start, "None")])
            /\ Handled("move_to_beginning_of_line", "", <<"change_selections">>)
    /\ NoJoinLocals
    /\ NoTransaction
    /\ UNCHANGED <<buffer, read_only, clipboard, editor_mode, dance_mode, cursor_shape>>

move_to_end_of_line ==
    /\ IF all_selections_are_empty(selections)
       THEN /\ selections' = select([i \in 1..Len(selections) |->
                                        native_end_of_line(buffer, selections[i])])
            /\ Handled("move_to_end_of_line", "", <<"move_to_end_of_line">>)
       ELSE /\ selections' = select([i \in 1..Len(selections) |->
                                        collapse_to(selections[i], selections[i].end, "None")])
            /\ Handled("move_to_end_of_line", "", <<"change_selections">>)
    /\ NoJoinLocals
    /\ NoTransaction
    /\ UNCHANGED <<buffer, read_only, clipboard, editor_mode, dance_mode, cursor_shape>>

-----------------------------------------------------------------------------
(* The clipboard and paste_above, paste_below *)

\* A ClipboardEntry: String(text), Image or ExternalPaths.
StringEntry(text) == [kind |-> "String", text |-> text]
ImageEntry == [kind |-> "Image", text |-> <<>>]
ExternalPathsEntry == [kind |-> "ExternalPaths", text |-> <<>>]

\* cx.read_from_clipboard(): None, or Some(item) with its entries
NoClipboard == [present |-> FALSE, entries |-> <<>>]
ClipboardItem(entries) == [present |-> TRUE, entries |-> entries]

\* entry_ends_in_newline passing over the entries that are not text.
entry_ends_in_newline_or_not_text(entry) ==
    IF entry.kind \in {"Image", "ExternalPaths"} THEN TRUE
    ELSE entry.text # <<>> /\ entry.text[Len(entry.text)] = NL

\* The match arm of clipboard_ends_in_newline, for one entry.
entry_ends_in_newline(entry) ==
    IF entry.kind \in {"Image", "ExternalPaths"} THEN FALSE
    ELSE entry.text # <<>> /\ entry.text[Len(entry.text)] = NL

clipboard_ends_in_newline(clip) ==
    IF clip.present
    THEN /\ Len(clip.entries) > 0
         /\ \A i \in 1..Len(clip.entries) : entry_ends_in_newline(clip.entries[i])
    ELSE FALSE

\* ClipboardItem::text(): the text of the item's string entries, in order
RECURSIVE item_text(_)
item_text(entries) ==
    IF entries = <<>> THEN <<>>
    ELSE (IF Head(entries).kind = "String" THEN Head(entries).text ELSE <<>>)
         \o item_text(Tail(entries))

\* One edit per selection, in selection order: [a, b) becomes text, and the
\* caret ends `caret` characters after a.
TextEdit(a, b, text, caret) == [a |-> a, b |-> b, text |-> text, caret |-> caret]

\* The edits applied to a text, the last one first.
RECURSIVE apply_edits(_, _)
apply_edits(text, es) ==
    IF es = <<>> THEN text
    ELSE LET e == es[Len(es)]
         IN apply_edits(Splice(text, e.a, e.b, e.text), SubSeq(es, 1, Len(es) - 1))

\* How far the edits before the i-th move what follows them.
RECURSIVE shift_before(_, _)
shift_before(es, i) ==
    IF i <= 1 THEN 0
    ELSE shift_before(es, i - 1) + Len(es[i - 1].text) - (es[i - 1].b - es[i - 1].a)

\* Editor::edit followed by the carets' move: the host's outcome of one edit
\* per selection.
edit_at_selections(buf, es) ==
    LET newbuf == Once(Unflatten(apply_edits(Flatten(buf), es)))
        caret(i) == ToPoint(newbuf, es[i].a + shift_before(es, i) + es[i].caret)
    IN [buffer |-> newbuf,
        selections |-> select([i \in 1..Len(es) |->
                                  Selection(caret(i), caret(i), FALSE, "None")])]

\* Editor::newline_above: an empty line above each caret's row, the caret on it
newline_above(st) ==
    edit_at_selections(st.buffer,
        [i \in 1..Len(st.selections) |->
            LET a == ToOffset(st.buffer, Point(head(st.selections[i]).row, 0))
            IN TextEdit(a, a, <<NL>>, 0)])

\* Editor::newline_below: an empty line below each caret's row, the caret on it
newline_below(st) ==
    edit_at_selections(st.buffer,
        [i \in 1..Len(st.selections) |->
            LET r == head(st.selections[i]).row
                a == ToOffset(st.buffer, Point(r, line_len(st.buffer, r)))
            IN TextEdit(a, a, <<NL>>, 1)])

\* Editor::paste: each selection replaced by the clipboard's text, the caret
\* after it; nothing without a clipboard item
paste(st, clip) ==
    IF ~clip.present THEN st
    ELSE edit_at_selections(st.buffer,
            [i \in 1..Len(st.selections) |->
                TextEdit(ToOffset(st.buffer, st.selections[i].start),
                         ToOffset(st.buffer, st.selections[i].end),
                         item_text(clip.entries), Len(item_text(clip.entries)))])

\* Editor::backspace: the character before each caret deleted, or the
\* selection when it is not empty
backspace(st) ==
    edit_at_selections(st.buffer,
        [i \in 1..Len(st.selections) |->
            LET a == ToOffset(st.buffer, st.selections[i].start)
                b == ToOffset(st.buffer, st.selections[i].end)
            IN IF a = b THEN TextEdit(Max(a - 1, 0), a, <<>>, 0)
               ELSE TextEdit(a, b, <<>>, 0)])

\* The editor state the paste commands work on.
EditorState == [buffer |-> buffer, selections |-> selections]

\* paste_above without the closing backspace.
paste_above_without_backspace(st, clip) ==
    paste(IF clipboard_ends_in_newline(clip) THEN newline_above(st) ELSE st, clip)

\* paste_above taking the new line whatever the clipboard holds.
paste_above_always_on_new_line(st, clip) ==
    backspace(paste(newline_above(st), clip))

\* paste_above's three steps, from a given state
paste_above_result(st, clip) ==
    LET ends_in_newline == clipboard_ends_in_newline(clip)
        s1 == Once(IF ends_in_newline THEN newline_above(st) ELSE st)
        s2 == Once(paste(s1, clip))
    IN IF ends_in_newline THEN backspace(s2) ELSE s2

\* paste_below's three steps, from a given state
paste_below_result(st, clip) ==
    LET ends_in_newline == clipboard_ends_in_newline(clip)
        s1 == Once(IF ends_in_newline THEN newline_below(st) ELSE st)
        s2 == Once(paste(s1, clip))
    IN IF ends_in_newline THEN backspace(s2) ELSE s2

\* The undo steps of paste_above: newline_above, paste and backspace are three
\* commands of the host, each in a transaction of its own.
paste_above_transactions(st, clip) ==
    LET ends_in_newline == clipboard_ends_in_newline(clip)
        s1 == Once(IF ends_in_newline THEN newline_above(st) ELSE st)
        s2 == Once(paste(s1, clip))
        s3 == IF ends_in_newline THEN backspace(s2) ELSE s2
    IN committed(st.buffer, s1.buffer) \o committed(s1.buffer, s2.buffer)
       \o committed(s2.buffer, s3.buffer)

\* The undo steps of paste_below.
paste_below_transactions(st, clip) ==
    LET ends_in_newline == clipboard_ends_in_newline(clip)
        s1 == Once(IF ends_in_newline THEN newline_below(st) ELSE st)
        s2 == Once(paste(s1, clip))
        s3 == IF ends_in_newline THEN backspace(s2) ELSE s2
    IN committed(st.buffer, s1.buffer) \o committed(s1.buffer, s2.buffer)
       \o committed(s2.buffer, s3.buffer)

\* The host calls of paste_above (first = "newline_above") and paste_below.
paste_calls(first, clip) ==
    IF clipboard_ends_in_newline(clip) THEN <<first, "paste", "backspace">>
    ELSE <<"paste">>

paste_above ==
    /\ LET st == Once(paste_above_result(EditorState, clipboard))
       IN buffer' = st.buffer /\ selections' = st.selections
    /\ Handled("paste_above", "", paste_calls("newline_above", clipboard))
    /\ NoJoinLocals
    /\ transactions' = paste_above_transactions(EditorState, clipboard)
    /\ UNCHANGED <<read_only, clipboard, editor_mode, dance_mode, cursor_shape>>

paste_below ==
    /\ LET st == Once(paste_below_result(EditorState, clipboard))
       IN buffer' = st.buffer /\ selections' = st.selections
    /\ Handled("paste_below", "", paste_calls("newline_below", clipboard))
    /\ NoJoinLocals
    /\ transactions' = paste_below_transactions(EditorState, clipboard)
    /\ UNCHANGED <<read_only, clipboard, editor_mode, dance_mode, cursor_shape>>

-----------------------------------------------------------------------------
(* join_lines: the row ranges *)

RowRange(s, e) == [start |-> s, end |-> e]

\* The row range join_lines derives from one selection.
selection_row_range(sel) ==
    RowRange(sel.start.row,
             IF sel.start.row = sel.end.row THEN sel.start.row + 1 ELSE sel.end.row)

\* The end the last range gets when an incoming range is merged into it.
merged_end(last, incoming) == incoming.end

\* merges_into with < for <=: a range that only touches the last one is pushed.
merges_into_overlapping(last, incoming) == incoming.start < last.end

\* Whether an incoming range is merged into the last one.
merges_into(last, incoming) == incoming.start <= last.end

\* push_row_range with no merge: every incoming range is pushed.
push_row_range_unmerged(acc, incoming) == Append(acc, incoming)

\* One turn of the merge loop: the incoming range extends the last range or is pushed.
push_row_range(acc, incoming) ==
    IF acc # <<>> /\ merges_into(acc[Len(acc)], incoming)
    THEN [acc EXCEPT ![Len(acc)].end = merged_end(acc[Len(acc)], incoming)]
    ELSE Append(acc, incoming)

\* The merge loop over the ranges in selection order.
RECURSIVE normalize_row_ranges(_, _)
normalize_row_ranges(acc, ranges) ==
    IF ranges = <<>> THEN acc
    ELSE normalize_row_ranges(push_row_range(acc, Head(ranges)), Tail(ranges))

\* row_range.iter_rows().rev(): the rows of a range, the highest first
RECURSIVE rows_descending(_, _)
rows_descending(s, e) == IF e <= s THEN <<>> ELSE <<e - 1>> \o rows_descending(s, e - 1)

\* visit_order without the two rev(): the ranges from the first to the last,
\* the rows of each from the lowest to the highest.
RECURSIVE visit_order_ascending(_)
visit_order_ascending(ranges) ==
    IF ranges = <<>> THEN <<>>
    ELSE visit_order_ascending(SubSeq(ranges, 1, Len(ranges) - 1))
         \o [i \in 1..(ranges[Len(ranges)].end - ranges[Len(ranges)].start) |->
               ranges[Len(ranges)].start + i - 1]

\* The rows in the order join_lines visits them: the ranges from the last to the
\* first, the rows of each from the highest to the lowest.
RECURSIVE visit_order(_)
visit_order(ranges) ==
    IF ranges = <<>> THEN <<>>
    ELSE LET r == ranges[Len(ranges)]
         IN rows_descending(r.start, r.end) \o visit_order(SubSeq(ranges, 1, Len(ranges) - 1))

-----------------------------------------------------------------------------
(* The buffer during a transaction: every character of the snapshot keeps its
   identity (its 1-based place in the snapshot's text), a deleted character
   stays as an invisible fragment, and an anchor names a character. *)

Fragment(ch, id, vis) == [ch |-> ch, id |-> id, vis |-> vis]

\* The snapshot's text as fragments.
fragments_of(text) == [i \in 1..Len(text) |-> Fragment(text[i], i, TRUE)]

\* The number of visible characters among the first j fragments.
visible_upto(frags, j) == Cardinality({k \in 1..j : frags[k].vis})

\* The text a reader of the buffer sees.
RECURSIVE visible_text(_)
visible_text(frags) ==
    IF frags = <<>> THEN <<>>
    ELSE (IF Head(frags).vis THEN <<Head(frags).ch>> ELSE <<>>) \o visible_text(Tail(frags))

\* The first k visible characters turned invisible.
RECURSIVE delete_visible(_, _)
delete_visible(frags, k) ==
    IF k = 0 \/ frags = <<>> THEN frags
    ELSE IF Head(frags).vis
         THEN <<[Head(frags) EXCEPT !.vis = FALSE]>> \o delete_visible(Tail(frags), k - 1)
         ELSE <<Head(frags)>> \o delete_visible(Tail(frags), k)

\* Buffer::edit of the visible range [a, b): the new text goes after what was
\* deleted at a before and in front of the characters it replaces, which
\* turn invisible.
RECURSIVE edit_fragments(_, _, _, _)
edit_fragments(frags, a, b, text) ==
    LET inserted == [i \in 1..Len(text) |-> Fragment(text[i], 0, TRUE)]
    IN IF frags = <<>> THEN inserted
       ELSE IF ~Head(frags).vis
            THEN <<Head(frags)>> \o edit_fragments(Tail(frags), a, b, text)
       ELSE IF a > 0
            THEN <<Head(frags)>> \o edit_fragments(Tail(frags), a - 1, b - 1, text)
       ELSE inserted \o delete_visible(frags, b)

\* snapshot.anchor_before(point): the character the point follows, 0 at the
\* start of the buffer
anchor_before(snapshot, p) == ToOffset(snapshot, p)

\* Anchor::to_offset in the edited buffer: the right edge of the anchor's
\* character, or the place it was deleted from
resolve_anchor(frags, anchor) ==
    IF anchor = 0 THEN 0
    ELSE visible_upto(frags, CHOOSE j \in 1..Len(frags) : frags[j].id = anchor)

-----------------------------------------------------------------------------
(* join_lines: the edits *)

\* replace_text with the next row's length compared to 0: a whitespace-only
\* row counts as content.
replace_text_for_nonempty(snapshot, row) ==
    IF line_len(snapshot, row + 1) > 0 THEN <<SP>> ELSE <<>>

\* The text put in place of the line break and the next row's indentation.
replace_text(snapshot, row) ==
    IF line_len(snapshot, row + 1) > indent_len(snapshot, row + 1) THEN <<SP>> ELSE <<>>

\* The range one turn of the inner loop replaces, measured on the snapshot.
end_of_line(snapshot, row) == Point(row, line_len(snapshot, row))
start_of_next_line(snapshot, row) == Point(row + 1, indent_len(snapshot, row + 1))

\* cursor_position with its end at the end of the next row's text.
cursor_position_to_end_of_next_line(snapshot, row) ==
    [start |-> anchor_before(snapshot, Point(row, line_len(snapshot, row))),
     end |-> anchor_before(snapshot, Point(row + 1, line_len(snapshot, row + 1)))]

\* cursor_position with its end at the next row's first non-indent column,
\* where the edit's range ends.
cursor_position_to_indent(snapshot, row) ==
    [start |-> anchor_before(snapshot, end_of_line(snapshot, row)),
     end |-> anchor_before(snapshot, start_of_next_line(snapshot, row))]

\* The anchor range one turn of the inner loop pushes to cursor_positions.
cursor_position(snapshot, row) ==
    [start |-> anchor_before(snapshot, Point(row, line_len(snapshot, row))),
     end |-> anchor_before(snapshot, Point(row + 1, 0))]

\* join_row with the lengths and the indentation measured on the buffer as
\* the edits made so far left it, the snapshot not consulted.
join_row_measuring_live(snapshot, row, st) ==
    LET live == Once(Unflatten(visible_text(st.fragments)))
        a == ToOffset(live, end_of_line(live, row))
        b == ToOffset(live, start_of_next_line(live, row))
    IN [fragments |-> edit_fragments(st.fragments, a, b, replace_text(live, row)),
        cursor_positions |-> Append(st.cursor_positions, cursor_position(snapshot, row)),
        edits |-> Append(st.edits,
                         [row |-> row,
                          start |-> end_of_line(live, row),
                          end |-> start_of_next_line(live, row),
                          replace |-> replace_text(live, row),
                          live |-> live])]

\* One turn of the inner loop: the anchor range is pushed, then the edit is
\* applied to the live buffer, its points resolved in the live text.
join_row(snapshot, row, st) ==
    LET live == Once(Unflatten(visible_text(st.fragments)))
        a == ToOffset(live, end_of_line(snapshot, row))
        b == ToOffset(live, start_of_next_line(snapshot, row))
    IN [fragments |-> edit_fragments(st.fragments, a, b, replace_text(snapshot, row)),
        cursor_positions |-> Append(st.cursor_positions, cursor_position(snapshot, row)),
        edits |-> Append(st.edits,
                         [row |-> row,
                          start |-> end_of_line(snapshot, row),
                          end |-> start_of_next_line(snapshot, row),
                          replace |-> replace_text(snapshot, row),
                          live |-> live])]

\* The two nested loops, over the rows in visiting order.
RECURSIVE join_rows(_, _, _)
join_rows(snapshot, rows, st) ==
    IF rows = <<>> THEN st
    ELSE join_rows(snapshot, Tail(rows), Once(join_row(snapshot, Head(rows), st)))

\* reverse leaving the list as it is.
not_reversed(s) == s

\* cursor_positions.reverse()
RECURSIVE reverse(_)
reverse(s) == IF s = <<>> THEN <<>> ELSE Append(reverse(Tail(s)), Head(s))

\* The row ranges of a selection set.
row_ranges_of(sels) ==
    normalize_row_ranges(<<>>, [i \in 1..Len(sels) |-> selection_row_range(sels[i])])

\* The transaction's closure, from the snapshot and the row ranges.
join_result(snapshot, ranges) ==
    join_rows(snapshot, visit_order(ranges),
              [fragments |-> fragments_of(Flatten(snapshot)),
               cursor_positions |-> <<>>, edits |-> <<>>])

\* s.select_anchor_ranges: the anchor ranges resolved in the edited buffer
select_anchor_ranges(frags, ranges) ==
    LET newbuf == Once(Unflatten(visible_text(frags)))
    IN select([i \in 1..Len(ranges) |->
                  Selection(ToPoint(newbuf, resolve_anchor(frags, ranges[i].start)),
                            ToPoint(newbuf, resolve_anchor(frags, ranges[i].end)),
                            FALSE, "None")])

\* The host calls of a join of n rows.
join_calls(n) ==
    <<"transact">> \o [i \in 1..n |-> "edit"] \o <<"change_selections">>

\* join_lines past its read-only check: the merge loop and the transaction.
join_transaction ==
    \E done \in {join_result(buffer, row_ranges_of(selections))} :
        \E joined \in {Unflatten(visible_text(done.fragments))} :
            /\ row_ranges' = row_ranges_of(selections)
            /\ edits' = done.edits
            /\ cursor_positions' = reverse(done.cursor_positions)
            /\ buffer' = joined
            /\ selections' = select_anchor_ranges(done.fragments,
                                                  reverse(done.cursor_positions))
            /\ transactions' = committed(buffer, joined)
            /\ Handled("join_lines", "", join_calls(Len(done.edits)))

\* join_lines without its read-only check.
join_lines_unguarded ==
    /\ join_transaction
    /\ UNCHANGED <<read_only, clipboard, editor_mode, dance_mode, cursor_shape>>

join_lines ==
    /\ IF read_only
       THEN /\ UNCHANGED <<buffer, selections>>
            /\ NoJoinLocals
            /\ NoTransaction
            /\ Handled("join_lines", "", <<>>)
       ELSE join_transaction
    /\ UNCHANGED <<read_only, clipboard, editor_mode, dance_mode, cursor_shape>>

-----------------------------------------------------------------------------
(* The inputs the specifications draw from *)

\* The buffers of at most n rows over a set of lines.
Buffers(lines, n) == UNION {[1..k -> lines] : k \in 1..n}

\* The points of a buffer.
AllPoints(buf) ==
    UNION {{Point(r, c) : c \in 0..line_len(buf, r)} : r \in 0..LastRow(buf)}

\* The points at the start and at the end of a buffer's rows.
RowEdgePoints(buf) ==
    UNION {{Point(r, 0), Point(r, line_len(buf, r))} : r \in 0..LastRow(buf)}

\* The selections over a set of points.
SelectionsOver(points, revs, goals) ==
    {Selection(s, e, rev, g) : s \in points, e \in points, rev \in revs, g \in goals}

\* The sequences of at most n selections over the points, ascending and
\* apart, every start after a given point.
RECURSIVE SelectionsAfter(_, _, _, _, _)
SelectionsAfter(points, revs, goal, n, after) ==
    IF n = 0 THEN {<<>>}
    ELSE {<<>>} \cup
         UNION {{<<sel>> \o rest :
                    rest \in SelectionsAfter(points, revs, goal, n - 1, sel.end)} :
                sel \in {x \in SelectionsOver(points, revs, {goal}) :
                            PointLT(after, x.start) /\ PointLE(x.start, x.end)}}

\* The selection sets of at most n selections the host can hold.
SelectionSets(points, revs, goals, n) ==
    UNION {SelectionsAfter(points, revs, goal, n, Point(-1, 0)) : goal \in goals} \ {<<>>}

\* A caret.
Caret(p) == Selection(p, p, FALSE, "None")

\* The mode names a switch-mode command carries.
Modes == {"default", "action", "insert", ""}

CursorShapes == {"Bar", "WideBar", "Block"}

EditorModes == {"Full", "SingleLine"}

\* Events of the editor the controller is subscribed to.
EditorEvents == {"Focused", "FocusedIn", "Blurred"}

t_a == <<"a">>
t_a_nl == <<"a", NL>>

Clipboards ==
    { NoClipboard,
      ClipboardItem(<<>>),
      ClipboardItem(<<StringEntry(t_a_nl)>>),
      ClipboardItem(<<StringEntry(<<"a", NL, "a", NL>>)>>),
      ClipboardItem(<<StringEntry(t_a)>>),
      ClipboardItem(<<StringEntry(<<>>)>>),
      ClipboardItem(<<StringEntry(<<NL, "a">>)>>),
      ClipboardItem(<<ImageEntry>>),
      ClipboardItem(<<ExternalPathsEntry>>),
      ClipboardItem(<<StringEntry(t_a_nl), ImageEntry>>),
      ClipboardItem(<<StringEntry(t_a_nl), StringEntry(t_a)>>),
      ClipboardItem(<<StringEntry(t_a_nl), StringEntry(t_a_nl)>>) }

-----------------------------------------------------------------------------
(* Construction *)

\* init's observe_new callback: the surface as the controller leaves it.
init(buf, sels, ro, clip, emode) ==
    /\ buffer = buf
    /\ selections = sels
    /\ read_only = ro
    /\ clipboard = clip
    /\ editor_mode = emode
    /\ dance_mode = initial_mode(emode)
    /\ cursor_shape = sync(initial_mode(emode))
    /\ last_action = Action("init", "")
    /\ pre = [buffer |-> buf, selections |-> sels,
              dance_mode |-> initial_mode(emode),
              cursor_shape |-> sync(initial_mode(emode))]
    /\ host_calls = <<"register_addon", "set_cursor_shape">>
    /\ row_ranges = <<>>
    /\ edits = <<>>
    /\ cursor_positions = <<>>
    /\ transactions = <<>>
    /\ surface = [editor |-> TRUE, dance |-> TRUE]

\* Another surface (or the host) changes the cursor shape.
set_cursor_shape_elsewhere(shape) ==
    /\ cursor_shape' = shape
    /\ Handled("set_cursor_shape_elsewhere", shape, <<>>)
    /\ NoJoinLocals
    /\ NoTransaction
    /\ UNCHANGED <<buffer, selections, read_only, clipboard, editor_mode, dance_mode>>

\* The closure register_editor_action registers for a handler f: the Dance
\* is looked up through its weak handle and the result unwrapped, then the
\* Editor through the Dance's weak handle, then f runs.
register_editor_action(name, f) ==
    IF ~surface.dance THEN unwrap_failed(name)
    ELSE IF ~surface.editor THEN abandoned(name)
    ELSE f

\* The host releases an entity while closures that hold a weak handle to it
\* are still registered.
release(entity) ==
    /\ surface[entity]
    /\ surface' = [surface EXCEPT ![entity] = FALSE]
    /\ last_action' = Action("release", entity)
    /\ pre' = Before
    /\ host_calls' = <<>>
    /\ Untouched

-----------------------------------------------------------------------------
(* The editor surface as a whole: every command and event, from small documents *)

Documents == { <<t_a, <<SP, "a">>>> }

DocumentClipboards == {NoClipboard, ClipboardItem(<<StringEntry(t_a_nl)>>)}

\* A new surface holds one caret at the start of its buffer.
Init ==
    \E buf \in Documents, clip \in DocumentClipboards, emode \in EditorModes :
        init(buf, <<Caret(Point(0, 0))>>, FALSE, clip, emode)

\* The document stays within the model's size.
Fits == Len(Flatten(buffer')) <= MaxText

Next ==
    \/ select_line
    \/ paste_above /\ Fits
    \/ paste_below /\ Fits
    \/ join_lines
    \/ move_to_beginning_of_line
    \/ move_to_end_of_line
    \/ \E mode \in Modes : switch_mode(mode)
    \/ \E event \in EditorEvents : handle_editor_event(event)
    \/ extend_key_context
    \/ \E shape \in CursorShapes : set_cursor_shape_elsewhere(shape)

Spec == Init /\ [][Next]_vars

-----------------------------------------------------------------------------
(* join_lines from generated buffers and selection sets *)

\* A generated input is used once.
Fresh == last_action.name = "init"

\* An empty line, a whitespace-only line, an indented line, a line ending in a space.
JoinLineSet == { <<>>, <<SP>>, <<SP, "a">>, <<"a", SP>> }

\* The points at the start of a buffer's rows.
RowStartPoints(buf) == {Point(r, 0) : r \in 0..LastRow(buf)}

JoinSelectionSets(buf) ==
    SelectionSets(RowStartPoints(buf), {FALSE}, {"None"}, JoinMaxSelections)

InitJoin ==
    \E buf \in Buffers(JoinLineSet, JoinMaxRows) :
        \E sels \in JoinSelectionSets(buf) :
            init(buf, sels, FALSE, NoClipboard, "Full")

NextJoin == Fresh /\ join_lines

SpecJoin == InitJoin /\ [][NextJoin]_vars

-----------------------------------------------------------------------------
(* join_lines on writable and on read-only buffers *)

InitReadOnly ==
    \E buf \in Buffers(JoinLineSet, ReadOnlyMaxRows), ro \in BOOLEAN :
        \E sels \in JoinSelectionSets(buf) :
            init(buf, sels, ro, NoClipboard, "Full")

NextReadOnly == Fresh /\ join_lines

SpecReadOnly == InitReadOnly /\ [][NextReadOnly]_vars

-----------------------------------------------------------------------------
(* Commands and events that arrive while the surface is being torn down *)

Entities == {"editor", "dance"}

InitTeardown ==
    \E buf \in Documents :
        init(buf, <<Caret(Point(0, 0))>>, FALSE, NoClipboard, "Full")

\* The Dance owns the event subscription: no event arrives once it is released.
NextTeardown ==
    \/ register_editor_action("select_line", select_line)
    \/ register_editor_action("paste_above", paste_above)
    \/ register_editor_action("paste_below", paste_below)
    \/ register_editor_action("join_lines", join_lines)
    \/ register_editor_action("move_to_beginning_of_line", move_to_beginning_of_line)
    \/ register_editor_action("move_to_end_of_line", move_to_end_of_line)
    \/ \E mode \in Modes : register_editor_action("switch_mode", switch_mode(mode))
    \/ \E event \in EditorEvents : surface.dance /\ handle_editor_event(event)
    \/ \E entity \in Entities : release(entity)

SpecTeardown == InitTeardown /\ [][NextTeardown]_vars

-----------------------------------------------------------------------------
(* join_lines with selections that start and end at any column *)

CaretLineSet == { <<>>, t_a, <<SP, "a">> }

InitCarets ==
    \E buf \in Buffers(CaretLineSet, CaretMaxRows) :
        \E sels \in SelectionSets(AllPoints(buf), BOOLEAN, {"None"}, CaretMaxSelections) :
            init(buf, sels, FALSE, NoClipboard, "Full")

NextCarets == Fresh /\ join_lines

SpecCarets == InitCarets /\ [][NextCarets]_vars

-----------------------------------------------------------------------------
(* The merge loop alone, from generated row ranges *)

\* The row ranges of rows 0..MaxRangeRow with at least one row.
RowRanges ==
    {r \in {RowRange(s, e) : s \in 0..MaxRangeRow, e \in 1..(MaxRangeRow + 1)} :
        r.start < r.end}

\* The range sequences whose starts never decrease.
RangeInputs ==
    {rs \in UNION {[1..k -> RowRanges] : k \in 1..MaxRanges} :
        \A i \in 1..(Len(rs) - 1) : rs[i].start <= rs[i + 1].start}

InitNormalize ==
    init(<<t_a>>, <<Caret(Point(0, 0))>>, FALSE, NoClipboard, "Full")

\* The merge loop applied to a range sequence, which the action's argument keeps.
normalize(ranges) ==
    /\ row_ranges' = normalize_row_ranges(<<>>, ranges)
    /\ Handled("normalize", ranges, <<>>)
    /\ UNCHANGED <<buffer, selections, read_only, clipboard, editor_mode, dance_mode,
                   cursor_shape, edits, cursor_positions, transactions>>

NextNormalize == Fresh /\ \E ranges \in RangeInputs : normalize(ranges)

SpecNormalize == InitNormalize /\ [][NextNormalize]_vars

-----------------------------------------------------------------------------
(* select_line from generated buffers and selection sets *)

SelectLineSet == { <<>>, t_a }

InitSelectLine ==
    \E buf \in Buffers(SelectLineSet, SelectMaxRows) :
        \E sels \in SelectionSets(AllPoints(buf), BOOLEAN, {"None"}, SelectMaxSelections) :
            init(buf, sels, FALSE, NoClipboard, "Full")

NextSelectLine == select_line

SpecSelectLine == InitSelectLine /\ [][NextSelectLine]_vars

-----------------------------------------------------------------------------
(* paste_above and paste_below from generated buffers, selections, clipboards *)

PasteLineSet == { <<>>, t_a, <<SP, "a">> }

InitPaste ==
    \E buf \in Buffers(PasteLineSet, PasteMaxRows), clip \in Clipboards :
        \E sels \in SelectionSets(AllPoints(buf), BOOLEAN, {"None"}, 1) :
            init(buf, sels, FALSE, clip, "Full")

NextPaste ==
    \/ Fresh /\ paste_above
    \/ Fresh /\ paste_below

SpecPaste == InitPaste /\ [][NextPaste]_vars

-----------------------------------------------------------------------------
(* The motions from generated buffers and selection sets *)

MoveBuffers == { <<t_a>>, <<<<SP, "a">>>>, <<t_a, <<SP, "a">>>>, <<<<SP, "a">>, <<>>>> }

SelectionGoals == {"None", "HorizontalPosition"}

InitMove ==
    \E buf \in MoveBuffers :
        \E sels \in SelectionSets(AllPoints(buf), BOOLEAN, SelectionGoals, MoveMaxSelections) :
            init(buf, sels, FALSE, NoClipboard, "Full")

NextMove ==
    \/ move_to_beginning_of_line
    \/ move_to_end_of_line

SpecMove == InitMove /\ [][NextMove]_vars

-----------------------------------------------------------------------------
(* Claims about join_lines *)

IsJoin == last_action.name = "join_lines" /\ ~read_only

\* The rows the last join_lines edited.
JoinedRows == {edits[i].row : i \in 1..Len(edits)}

\* A line without its leading indentation.
RECURSIVE Unindented(_)
Unindented(line) ==
    IF line = <<>> \/ Head(line) # SP THEN line ELSE Unindented(Tail(line))

\* What stands between row r - 1 and row r once they are joined: one space
\* when row r has content beyond its indentation, nothing otherwise.
Separator(buf, r) == IF Unindented(Line(buf, r)) # <<>> THEN <<SP>> ELSE <<>>

\* The text of rows 0..r of a buffer when each row of `rows` is joined with
\* its successor.
RECURSIVE JoinedText(_, _, _)
JoinedText(buf, rows, r) ==
    IF r = 0 THEN Line(buf, 0)
    ELSE IF (r - 1) \in rows
         THEN JoinedText(buf, rows, r - 1) \o Separator(buf, r) \o Unindented(Line(buf, r))
         ELSE JoinedText(buf, rows, r - 1) \o <<NL>> \o Line(buf, r)

\* The text an edit of the log replaced, as the live buffer held it.
ReplacedText(e) ==
    Slice(Flatten(e.live), ToOffset(e.live, e.start), ToOffset(e.live, e.end))

\* n spaces
Spaces(n) == [i \in 1..n |-> SP]

\* C1: join_lines whitespace rule. For every row r joined with its successor,
\* the edit removes exactly the line break and the leading indentation of
\* row r + 1 and puts one space in their place when row r + 1 has content
\* beyond its indentation, and nothing when it is empty or whitespace-only;
\* the buffer after the join is the old one with these replacements made.
C1_JoinWhitespaceRule ==
    IsJoin =>
        /\ \A i \in 1..Len(edits) :
             LET e == edits[i]
                 next == e.row + 1
             IN next <= LastRow(pre.buffer) =>
                  /\ ReplacedText(e) = <<NL>> \o Spaces(indent_len(pre.buffer, next))
                  /\ e.replace = IF line_len(pre.buffer, next) > indent_len(pre.buffer, next)
                                 THEN <<SP>> ELSE <<>>
        /\ Flatten(buffer) = JoinedText(pre.buffer, JoinedRows, LastRow(pre.buffer))

\* C1's case: one join_lines call joins a row with an indented row with
\* content and another row with a whitespace-only row.
C1_Witness ==
    /\ IsJoin
    /\ \E i, j \in 1..Len(edits) :
         /\ edits[i].replace = <<SP>>
         /\ indent_len(pre.buffer, edits[i].row + 1) > 0
         /\ edits[j].replace = <<>>
         /\ edits[j].row + 1 <= LastRow(pre.buffer)
         /\ line_len(pre.buffer, edits[j].row + 1) > 0

\* C2: join_lines ordering. The rows edited in one call are strictly
\* descending, and each edit finds the live buffer, up to the end of the range
\* it replaces, as the snapshot had it: its snapshot-computed range denotes
\* the same text at the same place.
C2_JoinOrdering ==
    IsJoin =>
        /\ \A i \in 1..(Len(edits) - 1) : edits[i].row > edits[i + 1].row
        /\ \A i \in 1..Len(edits) :
             LET e == edits[i]
             IN /\ ToOffset(e.live, e.start) = ToOffset(pre.buffer, e.start)
                /\ ToOffset(e.live, e.end) = ToOffset(pre.buffer, e.end)
                /\ SubSeq(Flatten(e.live), 1, ToOffset(e.live, e.end))
                     = SubSeq(Flatten(pre.buffer), 1, ToOffset(pre.buffer, e.end))

\* C2's case: several selections give more than one row range, and every
\* edit joins a row with a row of the buffer.
C2_Witness ==
    /\ IsJoin
    /\ Len(pre.selections) > 1
    /\ Len(row_ranges) > 1
    /\ \A i \in 1..Len(edits) : edits[i].row < LastRow(pre.buffer)
    /\ buffer # pre.buffer

-----------------------------------------------------------------------------
(* Claims about the merge loop *)

IsNormalize == last_action.name = "normalize"

\* The rows a sequence of ranges covers.
RowsOf(ranges) == UNION {ranges[i].start..(ranges[i].end - 1) : i \in 1..Len(ranges)}

\* Ranges that are ascending, pairwise disjoint and not adjacent.
Separated(ranges) ==
    /\ \A i \in 1..Len(ranges) : ranges[i].start < ranges[i].end
    /\ \A i \in 1..(Len(ranges) - 1) : ranges[i].end < ranges[i + 1].start

\* The merge the specification describes: the end becomes the larger one.
RECURSIVE MaxMerge(_, _)
MaxMerge(acc, ranges) ==
    IF ranges = <<>> THEN acc
    ELSE LET r == Head(ranges) IN
         IF acc # <<>> /\ r.start <= acc[Len(acc)].end
         THEN MaxMerge([acc EXCEPT ![Len(acc)].end = Max(acc[Len(acc)].end, r.end)],
                       Tail(ranges))
         ELSE MaxMerge(Append(acc, r), Tail(ranges))

EndsAscend(ranges) == \A i \in 1..(Len(ranges) - 1) : ranges[i].end <= ranges[i + 1].end

-----------------------------------------------------------------------------
(* Claims about select_line *)

IsSelectLine == last_action.name = "select_line"

\* A selection that covers whole lines with the caret at its start.
CoversWholeLines(buf, sel) ==
    /\ sel.start.column = 0
    /\ sel.reversed
    /\ \/ sel.end.column = 0 /\ sel.end.row > sel.start.row
       \/ sel.end = max_point(buf)

\* C4: idempotence of select_line. A selection set whose selections cover
\* whole lines with the caret at the start comes back unchanged, so no
\* selection of N lines grows to N + 1; and whatever the selections were,
\* the result covers whole lines and select_line applied to it gives it again.
C4_SelectLineIdempotent ==
    IsSelectLine =>
        /\ (\A i \in 1..Len(pre.selections) : CoversWholeLines(pre.buffer, pre.selections[i]))
              => selections = pre.selections
        /\ \A i \in 1..Len(selections) : CoversWholeLines(buffer, selections[i])
        /\ select(select_line_all(buffer, selections)) = selections

\* C4's case: select_line applied to two selections that cover whole lines,
\* one of them ending at column 0 of a later row, short of the buffer's end.
C4_Witness ==
    /\ IsSelectLine
    /\ Len(pre.selections) = 2
    /\ \A i \in 1..2 : CoversWholeLines(pre.buffer, pre.selections[i])
    /\ pre.selections[1].end.column = 0
    /\ pre.selections[1].end.row > pre.selections[1].start.row
    /\ pre.selections[2].end = max_point(pre.buffer)
    /\ selections = pre.selections

-----------------------------------------------------------------------------
(* Claims about paste_above, paste_below and the clipboard *)

IsPasteAbove == last_action.name = "paste_above"
IsPasteBelow == last_action.name = "paste_below"

\* The row the caret of the first selection was on.
CaretRow == head(pre.selections[1]).row

\* The clipboard's text as whole lines, its closing line break dropped.
ClipboardLines ==
    LET text == item_text(clipboard.entries)
    IN Unflatten(SubSeq(text, 1, Len(text) - 1))

\* C5: paste_above, paste_below with a newline-terminated clipboard. The
\* command calls insert-line-above (below), paste, backspace in this order,
\* and the buffer is the old one with the clipboard's lines put in directly
\* above (below) the caret's line: every old line is kept and no blank line
\* is added.
C5_PasteOnNewLine ==
    ((IsPasteAbove \/ IsPasteBelow) /\ clipboard_ends_in_newline(clipboard)) =>
        /\ host_calls = <<IF IsPasteAbove THEN "newline_above" ELSE "newline_below",
                          "paste", "backspace">>
        /\ LET at == IF IsPasteAbove THEN CaretRow ELSE CaretRow + 1
           IN buffer = SubSeq(pre.buffer, 1, at) \o ClipboardLines
                       \o SubSeq(pre.buffer, at + 1, Len(pre.buffer))

\* C5's case: the buffer "a\n a\n" with the caret on row 0 and the clipboard
\* "a\n"; paste_above gives "a\na\n a\n".
C5_Witness ==
    /\ IsPasteAbove
    /\ clipboard = ClipboardItem(<<StringEntry(t_a_nl)>>)
    /\ pre.buffer = <<t_a, <<SP, "a">>, <<>>>>
    /\ pre.selections = <<Caret(Point(0, 1))>>
    /\ buffer = <<t_a, t_a, <<SP, "a">>, <<>>>>

EveryEntryIsTextEndingInLineBreak(clip) ==
    /\ clip.present
    /\ clip.entries # <<>>
    /\ \A i \in 1..Len(clip.entries) :
         /\ clip.entries[i].kind = "String"
         /\ Len(clip.entries[i].text) >= 1
         /\ clip.entries[i].text[Len(clip.entries[i].text)] = NL

\* C7: clipboard_ends_in_newline is true exactly when the clipboard holds at
\* least one entry, every entry is text and every text ends in a line break;
\* the paste commands take the new line (three host calls) in exactly this case.
C7_ClipboardEndsInNewline ==
    /\ clipboard_ends_in_newline(clipboard) = EveryEntryIsTextEndingInLineBreak(clipboard)
    /\ (IsPasteAbove \/ IsPasteBelow) =>
         (Len(host_calls) = 3) = EveryEntryIsTextEndingInLineBreak(clipboard)

\* C7's case: a text entry ending in a line break beside an image; the paste
\* command pastes in place.
C7_Witness ==
    /\ IsPasteAbove
    /\ clipboard = ClipboardItem(<<StringEntry(t_a_nl), ImageEntry>>)
    /\ host_calls = <<"paste">>

-----------------------------------------------------------------------------
(* Claims about the mode controller *)

IsFocus == last_action.name \in {"Focused", "FocusedIn"}

\* C8: the cursor shape of a mode, and the resync. After construction, after
\* every switch_mode and after every Focused or FocusedIn event the cursor
\* shape is Bar when the stored mode is "default" and WideBar for any other
\* mode, whatever the shape was before; a focus event leaves the mode as it was.
C8_CursorShapeFollowsMode ==
    /\ (last_action.name \in {"init", "switch_mode"} \/ IsFocus) =>
         /\ (dance_mode = "default") = (cursor_shape = "Bar")
         /\ (dance_mode # "default") = (cursor_shape = "WideBar")
    /\ IsFocus => dance_mode = pre.dance_mode

\* C8's case: the mode is the empty string, the shape was changed from
\* outside, and a focus event sets it to WideBar again.
C8_Witness ==
    /\ last_action.name = "FocusedIn"
    /\ dance_mode = ""
    /\ pre.cursor_shape = "Bar"
    /\ cursor_shape = "WideBar"

\* C9: the mode state machine. A new surface is in mode "action" when it is a
\* full editor and in "default" otherwise; switch_mode(name) stores name; the
\* key context is given the stored mode; every other command and every event
\* leaves the stored mode as it was.
C9_ModeStateMachine ==
    /\ last_action.name = "init" =>
         dance_mode = (IF editor_mode = "Full" THEN "action" ELSE "default")
    /\ last_action.name = "switch_mode" => dance_mode = last_action.arg
    /\ last_action.name = "extend_key_context" => last_action.arg = dance_mode
    /\ last_action.name \notin {"init", "switch_mode"} => dance_mode = pre.dance_mode

\* C9's case: after a switch to a mode, a command that edits the buffer
\* leaves the mode stored.
C9_Witness ==
    /\ last_action.name = "join_lines"
    /\ dance_mode = "insert"
    /\ buffer # pre.buffer

-----------------------------------------------------------------------------
(* Claims about the motions *)

IsMoveToBeginning == last_action.name = "move_to_beginning_of_line"
IsMoveToEnd == last_action.name = "move_to_end_of_line"

\* C10: move_to_beginning_of_line, move_to_end_of_line. When some selection
\* is not empty every selection becomes a caret at its own start (end) with
\* no goal, by one change of the selections: the buffer is not edited and the
\* native motion is not called. When every selection is empty the command
\* calls the native motion and nothing else.
C10_CollapseOrDelegate ==
    (IsMoveToBeginning \/ IsMoveToEnd) =>
        /\ buffer = pre.buffer
        /\ IF \E i \in 1..Len(pre.selections) :
                 pre.selections[i].start # pre.selections[i].end
           THEN /\ host_calls = <<"change_selections">>
                /\ Len(selections) = Len(pre.selections)
                /\ \A i \in 1..Len(selections) :
                     selections[i] =
                        Caret(IF IsMoveToBeginning THEN pre.selections[i].start
                              ELSE pre.selections[i].end)
           ELSE host_calls = <<last_action.name>>

\* C10's case: a selection within one row that is not empty and holds a
\* goal, beside an empty one; move_to_end_of_line leaves carets at their ends.
C10_Witness ==
    /\ IsMoveToEnd
    /\ Len(pre.selections) = 2
    /\ is_empty(pre.selections[1])
    /\ pre.selections[2].start.row = pre.selections[2].end.row
    /\ pre.selections[2].start.column < pre.selections[2].end.column
    /\ pre.selections[2].goal # "None"
    /\ selections[2] = Caret(pre.selections[2].end)
    /\ pre.selections[2].end.column < line_len(buffer, pre.selections[2].end.row)

-----------------------------------------------------------------------------
(* Claims about the read-only check, the undo steps and a torn-down surface *)

\* C11: a read-only join is a no-op. When the buffer is read-only join_lines
\* makes no host call (no transaction is opened, no edit issued, no selection
\* set), adds no undo step, and leaves the buffer and the selections as they were.
C11_ReadOnlyJoinIsNoOp ==
    (last_action.name = "join_lines" /\ read_only) =>
        /\ host_calls = <<>>
        /\ edits = <<>>
        /\ cursor_positions = <<>>
        /\ transactions = <<>>
        /\ buffer = pre.buffer
        /\ selections = pre.selections

\* C11's case: join_lines on a read-only buffer of two rows with the caret on
\* the first, where a writable buffer would have been edited.
C11_Witness ==
    /\ last_action.name = "join_lines"
    /\ read_only
    /\ buffer = << <<"a", SP>>, <<SP, "a">> >>
    /\ selections = <<Caret(Point(0, 0))>>


\* C12: a single undo step. The buffer changes one call of join_lines,
\* paste_above or paste_below makes are inside one transaction: the call adds
\* at most one undo step, and when it changed the buffer exactly one, which
\* holds the buffer as it was before the command, so that one undo restores it.
C12_SingleUndoStep ==
    last_action.name \in {"join_lines", "paste_above", "paste_below"} =>
        /\ Len(transactions) <= 1
        /\ buffer # pre.buffer => transactions = <<pre.buffer>>


Commands ==
    {"select_line", "switch_mode", "paste_above", "paste_below", "join_lines",
     "move_to_beginning_of_line", "move_to_end_of_line"}

\* C13: a torn-down surface. A registered command or a Focused or FocusedIn
\* event that fires after the editor or the mode controller was destroyed is
\* abandoned: it makes no host call and does not panic, and the buffer, the
\* selections and the mode are as they were.
C13_TornDownSurface ==
    (/\ last_action.name \in Commands \cup {"Focused", "FocusedIn"}
     /\ ~(surface.editor /\ surface.dance)) =>
        /\ host_calls = <<>>
        /\ buffer = pre.buffer
        /\ selections = pre.selections
        /\ dance_mode = pre.dance_mode

-----------------------------------------------------------------------------
(* Claims about the selections join_lines leaves *)

\* The rows the last join_lines edited, ascending.
JoinedRowsAscending == reverse([i \in 1..Len(edits) |-> edits[i].row])

\* The separator put after row r when it is joined: none when no row follows.
SeparatorAfter(buf, r) == IF r < LastRow(buf) THEN Separator(buf, r + 1) ELSE <<>>

\* The join point of row r in the text after the join: the offset where the
\* text of rows 0..r ends.
JoinPoint(r) == Len(JoinedText(pre.buffer, JoinedRows, r))

\* The range of the joined text that holds the separator put after row r.
SeparatorRange(r) ==
    [start |-> JoinPoint(r), end |-> JoinPoint(r) + Len(SeparatorAfter(pre.buffer, r))]

\* The range of the buffer's text a selection covers.
OffsetRange(buf, sel) == [start |-> ToOffset(buf, sel.start), end |-> ToOffset(buf, sel.end)]

\* C14: join_lines selects the space between lines. Every selection left by
\* join_lines on a writable buffer covers exactly the separator put in at one
\* join point: the one inserted space when the next line had content, nothing
\* (a caret at the join point) when it was blank; and the selection set is the
\* host's set of these ranges, one per joined row.
C14_SelectsSeparators ==
    IsJoin =>
        /\ \A i \in 1..Len(selections) :
             \E r \in JoinedRows : OffsetRange(buffer, selections[i]) = SeparatorRange(r)
        /\ \A i \in 1..Len(selections) :
             Slice(Flatten(buffer), ToOffset(buffer, selections[i].start),
                   ToOffset(buffer, selections[i].end)) \in {<<>>, <<SP>>}
        /\ selections =
             select([k \in 1..Len(edits) |->
                       LET range == SeparatorRange(JoinedRowsAscending[k])
                       IN Selection(ToPoint(buffer, range.start),
                                    ToPoint(buffer, range.end), FALSE, "None")])

\* C14's case: an upper line that ends in a space is joined with a line with
\* content, and another line with a blank line: one selection covers the
\* inserted space, after the space the line had, and one is a caret.
C14_Witness ==
    /\ IsJoin
    /\ \E i, j \in 1..Len(selections) :
         /\ is_empty(selections[i])
         /\ selections[j].end.column = selections[j].start.column + 1
         /\ selections[j].start.column >= 2
         /\ Line(buffer, selections[j].start.row)[selections[j].start.column] = SP
    /\ \E k \in 1..Len(edits) :
         /\ edits[k].replace = <<SP>>
         /\ Line(pre.buffer, edits[k].row) = <<"a", SP>>


\* The anchor range of the k-th joined row, ascending, and that row.
AnchorRangeRow(k) == JoinedRowsAscending[k]

\* C15 as stated: the anchor range recorded for the join of row r is taken on
\* the snapshot and spans from the end of row r's text to the first
\* non-indent column of row r + 1, for any indentation of row r + 1.
C15_Original ==
    IsJoin =>
        \A k \in 1..Len(cursor_positions) :
            LET r == AnchorRangeRow(k)
            IN cursor_positions[k] =
                 [start |-> ToOffset(pre.buffer, Point(r, line_len(pre.buffer, r))),
                  end |-> ToOffset(pre.buffer, Point(r + 1, indent_len(pre.buffer, r + 1)))]

\* C15, amended: the anchor range recorded for the join of row r is taken on
\* the snapshot and spans from the end of row r's text to column 0 of row
\* r + 1, whatever the indentation of row r + 1: it is the line break alone
\* (nothing when r is the last row), and it ends where the edit's range ends
\* only when row r + 1 has no indentation.
C15_AnchorRange ==
    IsJoin =>
        /\ Len(cursor_positions) = Len(edits)
        /\ \A k \in 1..Len(cursor_positions) :
             LET r == AnchorRangeRow(k)
                 range == cursor_positions[k]
             IN /\ range.start = ToOffset(pre.buffer, Point(r, line_len(pre.buffer, r)))
                /\ range.end = ToOffset(pre.buffer, Point(r + 1, 0))
                /\ Slice(Flatten(pre.buffer), range.start, range.end) =
                     (IF r < LastRow(pre.buffer) THEN <<NL>> ELSE <<>>)
                /\ (range.end = ToOffset(pre.buffer, start_of_next_line(pre.buffer, r)))
                     = (indent_len(pre.buffer, r + 1) = 0)

\* C15's case: a row is joined with an indented row with content; the anchor
\* range ends before the indentation the edit removes.
C15_Witness ==
    /\ IsJoin
    /\ \E k \in 1..Len(cursor_positions) :
         /\ indent_len(pre.buffer, AnchorRangeRow(k) + 1) > 0
         /\ line_len(pre.buffer, AnchorRangeRow(k) + 1) > indent_len(pre.buffer, AnchorRangeRow(k) + 1)
         /\ cursor_positions[k].end
              < ToOffset(pre.buffer, start_of_next_line(pre.buffer, AnchorRangeRow(k)))


\* C16: ascending join selections. The list of anchor ranges join_lines hands
\* to the host's selection-replacement call, the last call it makes, holds
\* exactly one range per joined row and is strictly ascending: each range
\* starts after the one before it, and no range starts before the one before
\* it ends.
C16_AscendingAnchorRanges ==
    IsJoin =>
        /\ host_calls[Len(host_calls)] = "change_selections"
        /\ Len(cursor_positions) = Cardinality(RowsOf(row_ranges))
        /\ {cursor_positions[k].start : k \in 1..Len(cursor_positions)}
             = {ToOffset(pre.buffer, Point(r, line_len(pre.buffer, r))) : r \in RowsOf(row_ranges)}
        /\ \A k \in 1..(Len(cursor_positions) - 1) :
             /\ cursor_positions[k].start < cursor_positions[k + 1].start
             /\ cursor_positions[k].end <= cursor_positions[k + 1].start

\* C16's case: two selections give two row ranges, one of them of two rows;
\* three anchor ranges are handed over.
C16_Witness ==
    /\ IsJoin
    /\ Len(pre.selections) = 2
    /\ Len(row_ranges) = 2
    /\ Len(cursor_positions) = 3
    /\ cursor_positions[1].start < cursor_positions[2].start
    /\ cursor_positions[2].start < cursor_positions[3].start

-----------------------------------------------------------------------------
(* Claims about the text join_lines leaves *)

\* The edits of the last join_lines, ascending, as ranges of the snapshot's text.
SnapshotEdits ==
    LET n == Len(edits)
    IN [k \in 1..n |->
          TextEdit(ToOffset(pre.buffer, edits[n + 1 - k].start),
                   ToOffset(pre.buffer, edits[n + 1 - k].end),
                   edits[n + 1 - k].replace, 0)]

\* The reference: all edits applied to the snapshot's text at once, every
\* range where the snapshot has it.
FrozenSnapshotReference == apply_edits(Flatten(pre.buffer), SnapshotEdits)

\* Text made of line breaks and spaces only.
IsWhitespace(text) == \A i \in 1..Len(text) : text[i] \in {NL, SP}

\* The ranges replaced lie apart, in ascending order, each starts where its
\* row's text ends in the snapshot and holds line breaks and indentation only.
EditsAtJoinPointsOnly ==
    /\ \A k \in 1..Len(SnapshotEdits) :
         /\ SnapshotEdits[k].a <= SnapshotEdits[k].b
         /\ IsWhitespace(Slice(Flatten(pre.buffer), SnapshotEdits[k].a, SnapshotEdits[k].b))
         /\ SnapshotEdits[k].a = ToOffset(pre.buffer,
                Point(AnchorRangeRow(k), line_len(pre.buffer, AnchorRangeRow(k))))
    /\ \A k \in 1..(Len(SnapshotEdits) - 1) : SnapshotEdits[k].b <= SnapshotEdits[k + 1].a

\* The text in front of the join point of row r, as long as `text`.
BeforeJoinPoint(r, text) ==
    IF JoinPoint(r) < Len(text) THEN <<"cut short">>
    ELSE Slice(Flatten(buffer), JoinPoint(r) - Len(text), JoinPoint(r))

\* Row r ends in a space and the row after it has content.
SpaceMeetsContent(buf, r) ==
    /\ r < LastRow(buf)
    /\ line_len(buf, r) > 0
    /\ Line(buf, r)[line_len(buf, r)] = SP
    /\ line_len(buf, r + 1) > indent_len(buf, r + 1)

\* Two spaces stand at the join point of row r.
TwoSpacesAt(r) ==
    /\ JoinPoint(r) >= 1
    /\ Slice(Flatten(buffer), JoinPoint(r) - 1, JoinPoint(r) + 1) = <<SP, SP>>

\* C17 as stated: the text left is the frozen-snapshot reference, the edits
\* touch the join points only, no character of an upper line is removed, and
\* an upper line that ends in a space, joined with a line with content, gives
\* two spaces at the join.
C17_Original ==
    IsJoin =>
        /\ Flatten(buffer) = FrozenSnapshotReference
        /\ EditsAtJoinPointsOnly
        /\ \A r \in JoinedRows :
             /\ BeforeJoinPoint(r, Line(pre.buffer, r)) = Line(pre.buffer, r)
             /\ SpaceMeetsContent(pre.buffer, r) => TwoSpacesAt(r)

\* What is left of row r in front of its join point: the row without its
\* indentation when it is joined to the row above as well, the whole row
\* otherwise.
KeptOfUpperLine(r) ==
    IF (r - 1) \in JoinedRows THEN Unindented(Line(pre.buffer, r)) ELSE Line(pre.buffer, r)

\* C17, amended: the text left by the edits applied one at a time, bottom-up,
\* to the live buffer is the text of all those edits applied at once to the
\* snapshot taken before the first, also with an empty or whitespace-only
\* middle row. The edits touch the join points only. The join below a row
\* removes none of its characters; the join above it removes its indentation,
\* which for a whitespace-only middle row is the whole row. So an upper line
\* that has content and ends in a space, joined with a line with content,
\* gives two spaces at the join; a whitespace-only middle row adds none to
\* the one inserted.
C17_FrozenSnapshotReference ==
    IsJoin =>
        /\ Flatten(buffer) = FrozenSnapshotReference
        /\ EditsAtJoinPointsOnly
        /\ \A r \in JoinedRows :
             /\ BeforeJoinPoint(r, KeptOfUpperLine(r)) = KeptOfUpperLine(r)
             /\ SpaceMeetsContent(pre.buffer, r) =>
                  /\ Slice(Flatten(buffer), JoinPoint(r), JoinPoint(r) + 1) = <<SP>>
                  /\ KeptOfUpperLine(r) # <<>> => TwoSpacesAt(r)

\* C17's case: a range of two rows whose middle row is whitespace-only, under
\* an upper line that ends in a space: "a \n \n a" becomes "a  a", the two
\* spaces being the upper line's and the one inserted, the middle row gone.
C17_Witness ==
    /\ IsJoin
    /\ pre.buffer = << <<"a", SP>>, <<SP>>, <<SP, "a">> >>
    /\ JoinedRows = {0, 1}
    /\ buffer = << <<"a", SP, SP, "a">> >>

-----------------------------------------------------------------------------
(* Claims about the rows join_lines joins *)

\* The row range the specification gives a selection: [row, row + 1) when it
\* lies within one row, [start row, end row) otherwise.
RangeOfSelection(sel) ==
    IF sel.start.row = sel.end.row
    THEN RowRange(sel.start.row, sel.start.row + 1)
    ELSE RowRange(sel.start.row, sel.end.row)

RangesOfSelections(sels) == [i \in 1..Len(sels) |-> RangeOfSelection(sels[i])]

\* C18: each row is joined exactly once under the host's precondition. For
\* selections that are pairwise disjoint and ascending, the ends of their row
\* ranges never decrease, so the merge step, which gives the last range the
\* incoming end, gives the ranges of the max-merge; the rows joined are the
\* union of the selections' ranges and no row is joined twice.
C18_EachRowJoinedOnce ==
    IsJoin =>
        LET ranges == RangesOfSelections(pre.selections)
        IN /\ IsSelectionSet(pre.buffer, pre.selections)
           /\ EndsAscend(ranges)
           /\ row_ranges = MaxMerge(<<>>, ranges)
           /\ JoinedRows = RowsOf(ranges)
           /\ Len(edits) = Cardinality(JoinedRows)
           /\ \A i, j \in 1..Len(edits) : edits[i].row = edits[j].row => i = j

\* C18's case: two carets on the same row, above another row; the row is
\* joined with the next once.
C18_Witness ==
    /\ IsJoin
    /\ Len(pre.selections) = 2
    /\ is_empty(pre.selections[1]) /\ is_empty(pre.selections[2])
    /\ pre.selections[1].start.row = 0
    /\ pre.selections[2].start.row = 0
    /\ LastRow(pre.buffer) = 1
    /\ Len(edits) = 1
    /\ Len(buffer) = 1

\* C19: join stays inside the buffer. Every row r that join_lines measures
\* and edits has a successor row r + 1 in the snapshot, and no edit's range
\* reaches a row past the last one: a caret on the last row causes no
\* query and no edit there.
C19_JoinStaysInsideBuffer ==
    IsJoin =>
        \A i \in 1..Len(edits) :
            /\ edits[i].row + 1 <= LastRow(pre.buffer)
            /\ edits[i].end.row <= LastRow(pre.buffer)

-----------------------------------------------------------------------------
(* Claims about the shape of select_line's selections *)

\* A selection that starts at column 0 with the caret there and ends at
\* column 0 of a row or at the buffer's max point, not past it.
LineShaped(buf, sel) ==
    /\ sel.start.column = 0
    /\ sel.reversed
    /\ sel.end.column = 0 \/ sel.end = max_point(buf)
    /\ PointLE(sel.end, max_point(buf))

\* C20: the shape of select_line's output. For every input selection, empty
\* or not, of either orientation, at any columns, the selection select_line
\* produces starts at column 0 of the input's start row with the caret at the
\* start, ends at column 0 of a row or at the buffer's max point and never
\* past it, and contains the input; the end row, when stepped back, does not
\* go above the start row. The selections the host then holds have the same
\* shape and contain every input selection.
C20_SelectLineShape ==
    IsSelectLine =>
        /\ \A i \in 1..Len(pre.selections) :
             LET in == pre.selections[i]
                 out == select_line_one(pre.buffer, in)
             IN /\ LineShaped(pre.buffer, out)
                /\ out.start = Point(in.start.row, 0)
                /\ PointLE(out.start, in.start)
                /\ PointLE(in.end, out.end)
                /\ select_line_end(in).row >= in.start.row
                /\ select_line_end(in).row >= 0
                /\ \E j \in 1..Len(selections) :
                     /\ PointLE(selections[j].start, out.start)
                     /\ PointLE(out.end, selections[j].end)
        /\ \A j \in 1..Len(selections) :
             /\ LineShaped(buffer, selections[j])
             /\ \E i \in 1..Len(pre.selections) :
                  selections[j].start = Point(pre.selections[i].start.row, 0)

\* C20's case: a selection that is not reversed, starts inside a row and ends
\* at the end of a last row that has text; the output ends at the max point,
\* which is not at column 0.
C20_Witness ==
    /\ IsSelectLine
    /\ Len(pre.selections) = 1
    /\ ~pre.selections[1].reversed
    /\ pre.selections[1].start.column > 0
    /\ pre.selections[1].start.row < pre.selections[1].end.row
    /\ selections[1].end = max_point(buffer)
    /\ selections[1].end.column > 0
    /\ selections[1].start = Point(pre.selections[1].start.row, 0)

=============================================================================
